---- MODULE Spec2Model ----
(***************************************************************************)
(* FoldersPreferencesProvider                                              *)
(* (packages/preferences/src/browser/folders-preferences-provider.ts):     *)
(* the registry of per-folder preference providers, the folder selector    *)
(* and the resolution engine built on them.                                *)
(***************************************************************************)
EXTENDS Integers, Sequences, FiniteSets, TLC

VARIABLES
    roots,          \* workspaceService.tryGetRoots(): sequence of folder URIs
    pc,             \* position of init(): "awaitRoots", "listening"
    providers,      \* this.providers: insertion-ordered map, as a sequence of [key, id]
    nextId,         \* identity of the next provider object the factory returns
    toDispose,      \* provider objects held by this.toDispose
    disposeCount,   \* number of dispose() calls each provider object has received
    removed,        \* provider objects a recomputation pass took out of the registry
    life,           \* "alive", "disposed", "passAfterDispose"
    lastPass,       \* what the most recent updateProviders() call did
    files,          \* what each file-backed provider answers (external collaborator)
    ret,            \* the most recent read call and what it returned
    call,           \* the setPreference call in flight: its queue, its position, its log
    ready,          \* this._ready: "pending" or "resolved"
    readyPromises,  \* provider.ready of each provider init() collected: "pending",
                    \* "resolved" or "rejected"
    containersMap,      \* TabbarService.containersMap: insertion-ordered, [containerId, priority]
    state,              \* TabbarService.state: containerId -> [hidden, priority]
    storedState,        \* TabbarService.storedState: containerId -> [hidden, priority]
    rendered,           \* TabbarService.rendered
    sortedContainers,   \* TabbarService.sortedContainers: sequence of [containerId, priority]
    currentContainerId  \* TabbarService.currentContainerId

readyVars == <<ready, readyPromises>>

tabbarVars == <<containersMap, state, storedState, rendered, sortedContainers,
                currentContainerId>>

preferencesVars == <<roots, pc, providers, nextId, toDispose, disposeCount, removed, life,
                     lastPass, files, ret, call, readyVars>>

vars == <<preferencesVars, tabbarVars>>

----------------------------------------------------------------------------
(* Bounds *)

MaxRoots == 2
MaxChanges == 2
MaxFiles == 3

----------------------------------------------------------------------------
(* Configuration naming policy (PreferenceConfigurations) and the universe *)

Paths == <<".kaitian", ".vscode">>
SectionNames == <<"launch", "tasks">>
ConfigName == "settings"

FolderA == [scheme |-> "file", path |-> <<"a">>]
FolderAB == [scheme |-> "file", path |-> <<"a", "b">>]
FolderX == [scheme |-> "mem", path |-> <<"a", "b">>]
Folders == {FolderA, FolderAB, FolderX}

ToSet(s) == {s[i] : i \in 1..Len(s)}

IsInjective(s) == \A i, j \in 1..Len(s) : s[i] = s[j] => i = j

RootLists ==
    {r \in UNION {[1..n -> Folders] : n \in 0..MaxRoots} : IsInjective(r)}

createUri(folder, configPath, configName) ==
    [folder |-> folder, path |-> configPath, name |-> configName]

getName(configUri) == configUri.name

getPath(configUri) == configUri.path

----------------------------------------------------------------------------
(* Provider Registry *)

ConfigNames == SectionNames \o <<ConfigName>>

DesiredAt(rts, i) ==
    LET np == Len(Paths)
        nn == Len(ConfigNames)
        f == ((i - 1) \div (np * nn)) + 1
        p == (((i - 1) \div nn) % np) + 1
        n == ((i - 1) % nn) + 1
    IN createUri(rts[f], Paths[p], ConfigNames[n])

DesiredSeq(rts) ==
    [i \in 1..(Len(rts) * Len(Paths) * Len(ConfigNames)) |-> DesiredAt(rts, i)]

HasKey(provs, key) == \E j \in 1..Len(provs) : provs[j].key = key

KeysOf(provs) == {provs[j].key : j \in 1..Len(provs)}

IdsOf(provs) == {provs[j].id : j \in 1..Len(provs)}

createProvider(acc, key) ==
    [acc EXCEPT !.providers = Append(@, [key |-> key, id |-> acc.nextId]),
                !.nextId = @ + 1,
                !.created = @ \cup {acc.nextId}]

VisitKeyNoUnmark(acc, key) ==
    IF HasKey(acc.providers, key) THEN acc ELSE createProvider(acc, key)

VisitKeyAlwaysCreate(acc, key) ==
    LET unmarked == [acc EXCEPT !.toDelete = @ \ {key}]
        fresh == [key |-> key, id |-> acc.nextId]
    IN IF HasKey(acc.providers, key)
       THEN [unmarked EXCEPT
               !.providers = [j \in 1..Len(@) |-> IF @[j].key = key THEN fresh ELSE @[j]],
               !.nextId = @ + 1,
               !.created = @ \cup {acc.nextId}]
       ELSE createProvider(unmarked, key)

VisitKey(acc, key) ==
    LET unmarked == [acc EXCEPT !.toDelete = @ \ {key}]
    IN IF HasKey(acc.providers, key) THEN unmarked ELSE createProvider(unmarked, key)

RECURSIVE VisitAll(_, _, _)
VisitAll(acc, keys, i) ==
    IF i > Len(keys) THEN acc ELSE VisitAll(VisitKey(acc, keys[i]), keys, i + 1)

DeleteStaleNoDispose(acc) ==
    [providers |-> SelectSeq(acc.providers, LAMBDA e : e.key \notin acc.toDelete),
     nextId |-> acc.nextId,
     created |-> acc.created,
     disposed |-> {}]

DeleteStaleKeepEntries(acc) ==
    [providers |-> acc.providers,
     nextId |-> acc.nextId,
     created |-> acc.created,
     disposed |-> {acc.providers[j].id :
                     j \in {k \in 1..Len(acc.providers) :
                              acc.providers[k].key \in acc.toDelete}}]

DeleteStale(acc) ==
    [providers |-> SelectSeq(acc.providers, LAMBDA e : e.key \notin acc.toDelete),
     nextId |-> acc.nextId,
     created |-> acc.created,
     disposed |-> {acc.providers[j].id :
                     j \in {k \in 1..Len(acc.providers) :
                              acc.providers[k].key \in acc.toDelete}}]

updateProviders(provs, nid, rts) ==
    DeleteStale(VisitAll([providers |-> provs, nextId |-> nid,
                          toDelete |-> KeysOf(provs), created |-> {}],
                         DesiredSeq(rts), 1))

----------------------------------------------------------------------------
(* JSON values and PreferenceProvider.merge *)

Undefined == [t |-> "undefined"]

Prim(n) == [t |-> "prim", v |-> n]

Obj(m) == [t |-> "obj", m |-> m]

RECURSIVE merge(_, _)
merge(source, target) ==
    IF source.t = "obj" /\ target.t = "obj"
    THEN Obj([k \in (DOMAIN source.m) \cup (DOMAIN target.m) |->
                IF k \notin DOMAIN target.m THEN source.m[k]
                ELSE IF k \notin DOMAIN source.m THEN target.m[k]
                ELSE merge(source.m[k], target.m[k])])
    ELSE target

----------------------------------------------------------------------------
(* Resources and the file-backed providers (external collaborators) *)

NoUri == [scheme |-> "undefined", path |-> <<>>]

NoResource == NoUri

ResourceABC == [scheme |-> "file", path |-> <<"a", "b", "c.ts">>]
ResourceAX == [scheme |-> "file", path |-> <<"a", "x.ts">>]
Resources == {NoResource, ResourceABC, ResourceAX}

PrefNames == {"launch.foo", "x"}

\* A config file is identified by (config path, config name); every workspace
\* folder carries the same files.
Slots == {<<p, n>> : p \in ToSet(Paths), n \in ToSet(ConfigNames)}

\* The preferences each config file holds when it exists.
FilePrefs(slot) ==
    CASE slot = <<Paths[1], ConfigName>> ->
            ("launch.foo" :> Obj([a |-> Prim(1), b |-> Prim(1)])) @@ [x |-> Prim(2)]
      [] slot = <<Paths[2], ConfigName>> ->
            ("launch.foo" :> Prim(5)) @@ [x |-> Prim(5)]
      [] slot = <<Paths[1], SectionNames[1]>> ->
            [x |-> Prim(1)]
      [] slot = <<Paths[2], SectionNames[1]>> ->
            ("launch.foo" :> Obj([b |-> Prim(2)]))
      [] slot = <<Paths[1], SectionNames[2]>> ->
            [y |-> Prim(2)]
      [] OTHER ->
            ("launch.foo" :> Obj([b |-> Prim(3), c |-> Prim(3)])) @@ [y |-> Prim(3)]

\* cfg is whether the provider reports a config URI for a resource of its
\* folder.
FileContents(slot) == {[cfg |-> c, prefs |-> FilePrefs(slot)] : c \in BOOLEAN}

SlotOf(configUri) == <<getPath(configUri), getName(configUri)>>

HasFile(fls, entry) == SlotOf(entry.key) \in DOMAIN fls

providerGetConfigUri(fls, entry, resourceUri) ==
    IF resourceUri = NoResource THEN entry.key
    ELSE IF HasFile(fls, entry) /\ fls[SlotOf(entry.key)].cfg THEN entry.key
    ELSE NoUri

providerGetPreferences(fls, entry) ==
    IF HasFile(fls, entry) THEN Obj(fls[SlotOf(entry.key)].prefs) ELSE Obj(<<>>)

providerGet(fls, entry, preferenceName) ==
    IF HasFile(fls, entry) /\ preferenceName \in DOMAIN fls[SlotOf(entry.key)].prefs
    THEN fls[SlotOf(entry.key)].prefs[preferenceName]
    ELSE Undefined

providerResolve(fls, entry, preferenceName, resourceUri) ==
    [value |-> providerGet(fls, entry, preferenceName),
     configUri |-> providerGetConfigUri(fls, entry, resourceUri)]

----------------------------------------------------------------------------
(* Folder Selector *)

MaxSafeInteger == 2147483647

IsPrefix(s, t) == Len(s) <= Len(t) /\ SubSeq(t, 1, Len(s)) = s

relativity(folderPath, resourcePath) ==
    IF IsPrefix(folderPath, resourcePath) THEN Len(resourcePath) - Len(folderPath) ELSE -1

folderUri(entry) == entry.key.folder

CloserLastWins(folder, rel) == rel >= 0 /\ folder.relativity >= rel

CloserAnyRelativity(folder, rel) == folder.relativity > rel

Closer(folder, rel) == rel >= 0 /\ folder.relativity > rel

RECURSIVE ScanFolders(_, _, _, _)
ScanFolders(provs, resourcePath, i, folder) ==
    IF i > Len(provs) THEN folder
    ELSE LET uri == folderUri(provs[i])
             rel == relativity(uri.path, resourcePath)
         IN ScanFolders(provs, resourcePath, i + 1,
                        IF Closer(folder, rel)
                        THEN [relativity |-> rel, uri |-> uri]
                        ELSE folder)

getFolderProvidersOrAll(provs, resourceUri) ==
    IF resourceUri = NoResource THEN <<>>
    ELSE LET folder == ScanFolders(provs, resourceUri.path, 1,
                                   [relativity |-> MaxSafeInteger, uri |-> NoUri])
         IN IF folder.uri = NoUri THEN provs
            ELSE SelectSeq(provs, LAMBDA e : folderUri(e) = folder.uri)

getFolderProviders(provs, resourceUri) ==
    IF resourceUri = NoResource THEN <<>>
    ELSE LET folder == ScanFolders(provs, resourceUri.path, 1,
                                   [relativity |-> MaxSafeInteger, uri |-> NoUri])
         IN IF folder.uri = NoUri THEN <<>>
            ELSE SelectSeq(provs, LAMBDA e : folderUri(e) = folder.uri)

----------------------------------------------------------------------------
(* Resolution Engine: resolve and getPreferences *)

GroupOrderSectionsFirst == SectionNames \o <<ConfigName>>

GroupOrder == <<ConfigName>> \o SectionNames

groupProvidersByConfigName(provs, resourceUri) ==
    LET fp == getFolderProviders(provs, resourceUri)
    IN [g \in 1..Len(GroupOrder) |->
          [name |-> GroupOrder[g],
           group |-> SelectSeq(fp, LAMBDA e : getName(e.key) = GroupOrder[g])]]

GroupNames(groups) == [g \in 1..Len(groups) |-> groups[g].name]

Contributes(answer) == answer.configUri # NoUri /\ answer.value # Undefined

ResolveContributeKeepFirstUri(result, answer) ==
    [result EXCEPT !.configUri = IF @ = NoUri THEN answer.configUri ELSE @,
                   !.value = merge(@, answer.value)]

ResolveContributeLeftBiased(result, answer) ==
    [result EXCEPT !.configUri = answer.configUri,
                   !.value = merge(answer.value, @)]

ResolveContribute(result, answer) ==
    [result EXCEPT !.configUri = answer.configUri,
                   !.value = merge(@, answer.value)]

RECURSIVE ResolveGroupNoBreak(_, _, _, _, _, _)
ResolveGroupNoBreak(result, group, i, fls, preferenceName, resourceUri) ==
    IF i > Len(group) THEN result
    ELSE LET answer == providerResolve(fls, group[i], preferenceName, resourceUri)
             seen == [result EXCEPT !.consulted = Append(@, group[i])]
         IN ResolveGroupNoBreak(IF Contributes(answer)
                                THEN ResolveContribute(seen, answer) ELSE seen,
                                group, i + 1, fls, preferenceName, resourceUri)

RECURSIVE ResolveGroup(_, _, _, _, _, _)
ResolveGroup(result, group, i, fls, preferenceName, resourceUri) ==
    IF i > Len(group) THEN result
    ELSE LET answer == providerResolve(fls, group[i], preferenceName, resourceUri)
             seen == [result EXCEPT !.consulted = Append(@, group[i])]
         IN IF Contributes(answer)
            THEN ResolveContribute(seen, answer)
            ELSE ResolveGroup(seen, group, i + 1, fls, preferenceName, resourceUri)

RECURSIVE ResolveGroups(_, _, _, _, _, _)
ResolveGroups(result, groups, g, fls, preferenceName, resourceUri) ==
    IF g > Len(groups) THEN result
    ELSE ResolveGroups(ResolveGroup(result, groups[g].group, 1, fls,
                                    preferenceName, resourceUri),
                       groups, g + 1, fls, preferenceName, resourceUri)

resolve(provs, fls, preferenceName, resourceUri) ==
    ResolveGroups([value |-> Undefined, configUri |-> NoUri, consulted |-> <<>>],
                  groupProvidersByConfigName(provs, resourceUri), 1, fls,
                  preferenceName, resourceUri)

RECURSIVE PreferencesGroupNoBreak(_, _, _, _, _)
PreferencesGroupNoBreak(result, group, i, fls, resourceUri) ==
    IF i > Len(group) THEN result
    ELSE LET seen == [result EXCEPT !.consulted = Append(@, group[i])]
         IN PreferencesGroupNoBreak(
                IF providerGetConfigUri(fls, group[i], resourceUri) # NoUri
                THEN [seen EXCEPT !.value = merge(@, providerGetPreferences(fls, group[i]))]
                ELSE seen,
                group, i + 1, fls, resourceUri)

RECURSIVE PreferencesGroup(_, _, _, _, _)
PreferencesGroup(result, group, i, fls, resourceUri) ==
    IF i > Len(group) THEN result
    ELSE LET seen == [result EXCEPT !.consulted = Append(@, group[i])]
         IN IF providerGetConfigUri(fls, group[i], resourceUri) # NoUri
            THEN [seen EXCEPT !.value = merge(@, providerGetPreferences(fls, group[i]))]
            ELSE PreferencesGroup(seen, group, i + 1, fls, resourceUri)

RECURSIVE PreferencesGroups(_, _, _, _, _)
PreferencesGroups(result, groups, g, fls, resourceUri) ==
    IF g > Len(groups) THEN result
    ELSE PreferencesGroups(PreferencesGroup(result, groups[g].group, 1, fls, resourceUri),
                           groups, g + 1, fls, resourceUri)

getPreferences(provs, fls, resourceUri) ==
    PreferencesGroups([value |-> Obj(<<>>), consulted |-> <<>>],
                      groupProvidersByConfigName(provs, resourceUri), 1, fls,
                      resourceUri)

----------------------------------------------------------------------------
(* Resolution Engine: setPreference *)

WrittenValue == Prim(9)

firstSegment(preferenceName) ==
    CASE preferenceName = "launch.foo" -> "launch"
      [] preferenceName = "foo.bar" -> "foo"
      [] OTHER -> preferenceName

isSectionName(name) == name \in ToSet(SectionNames)

targetConfigName(preferenceName) ==
    IF isSectionName(firstSegment(preferenceName))
    THEN firstSegment(preferenceName)
    ELSE ConfigName

NoPath == "undefined"

RECURSIVE lastConfigPath(_, _, _, _)
lastConfigPath(fp, i, fls, resourceUri) ==
    IF i > Len(fp) THEN NoPath
    ELSE LET later == lastConfigPath(fp, i + 1, fls, resourceUri)
         IN IF later # NoPath THEN later
            ELSE IF providerGetConfigUri(fls, fp[i], resourceUri) # NoUri
                 THEN getPath(providerGetConfigUri(fls, fp[i], resourceUri))
                 ELSE NoPath

RECURSIVE firstConfigPath(_, _, _, _)
firstConfigPath(fp, i, fls, resourceUri) ==
    IF i > Len(fp) THEN NoPath
    ELSE IF providerGetConfigUri(fls, fp[i], resourceUri) # NoUri
         THEN getPath(providerGetConfigUri(fls, fp[i], resourceUri))
         ELSE firstConfigPath(fp, i + 1, fls, resourceUri)

candidatesOfAnyName(fp, configName) == fp

candidates(fp, configName) ==
    SelectSeq(fp, LAMBDA e : getName(e.key) = configName)

initialIteratorReversed(cands) ==
    [i \in 1..Len(cands) |-> [tier |-> "a", provider |-> cands[Len(cands) + 1 - i]]]

initialIterator(cands) == [i \in 1..Len(cands) |-> [tier |-> "a", provider |-> cands[i]]]

\* What a closure of the iterator does when called: it yields its provider or
\* pushes the closure of the next tier.
yields(closure, fls, configPath, resourceUri) ==
    CASE closure.tier = "a" ->
            providerGetConfigUri(fls, closure.provider, resourceUri) # NoUri
      [] closure.tier = "b" ->
            getPath(closure.provider.key) = configPath
      [] OTHER -> TRUE

nextTier(closure) ==
    [tier |-> IF closure.tier = "a" THEN "b" ELSE "c", provider |-> closure.provider]

RECURSIVE drain(_, _, _, _, _, _)
drain(iterator, attempts, fls, configPath, resourceUri, accepts) ==
    IF iterator = <<>> THEN [result |-> FALSE, attempts |-> attempts]
    ELSE LET next == Head(iterator)
         IN IF yields(next, fls, configPath, resourceUri)
            THEN IF next.provider.id \in accepts
                 THEN [result |-> TRUE, attempts |-> Append(attempts, next)]
                 ELSE drain(Tail(iterator), Append(attempts, next), fls,
                            configPath, resourceUri, accepts)
            ELSE drain(Append(Tail(iterator), nextTier(next)), attempts, fls,
                       configPath, resourceUri, accepts)

setPreference(provs, fls, preferenceName, resourceUri, accepts) ==
    LET fp == getFolderProviders(provs, resourceUri)
        configName == targetConfigName(preferenceName)
        configPath == firstConfigPath(fp, 1, fls, resourceUri)
        r == drain(initialIterator(candidates(fp, configName)), <<>>, fls,
                   configPath, resourceUri, accepts)
    IN [result |-> r.result,
        attempts |-> r.attempts,
        consulted |-> fp,
        configName |-> configName,
        configPath |-> configPath]

providerSetPreference(fls, entry, preferenceName, value) ==
    LET slot == SlotOf(entry.key)
        old == IF slot \in DOMAIN fls THEN fls[slot].prefs ELSE <<>>
    IN [s \in (DOMAIN fls) \cup {slot} |->
          IF s = slot
          THEN [cfg |-> TRUE,
                prefs |-> [n \in (DOMAIN old) \cup {preferenceName} |->
                             IF n = preferenceName THEN value ELSE old[n]]]
          ELSE fls[s]]

----------------------------------------------------------------------------
(* Resolution Engine: setPreference as it runs, one step per await *)

WritePrefNames == {"launch.foo", "foo.bar"}

pushNextTierFront(queue, closure) == <<nextTier(closure)>> \o queue

pushNextTier(queue, closure) == Append(queue, nextTier(closure))

\* One entry of the log: a closure of the iterator was called; it yielded its
\* provider (whose setPreference is then awaited) or pushed the next tier.
Evaluated(closure, yielded) ==
    [tier |-> closure.tier,
     provider |-> closure.provider,
     yielded |-> yielded,
     answer |-> IF yielded THEN "pending" ELSE "none"]

\* The loop of lines 147-156 from its current position to its next await or
\* to the return of line 157.
RECURSIVE runToAwait(_, _)
runToAwait(c, fls) ==
    IF c.iterator = <<>>
    THEN [c EXCEPT !.status = "returned", !.result = FALSE]
    ELSE LET next == Head(c.iterator)
             rest == Tail(c.iterator)
         IN IF yields(next, fls, c.configPath, c.resourceUri)
            THEN [c EXCEPT !.status = "awaiting",
                           !.iterator = rest,
                           !.log = Append(@, Evaluated(next, TRUE))]
            ELSE runToAwait([c EXCEPT !.iterator = pushNextTier(rest, next),
                                      !.log = Append(@, Evaluated(next, FALSE))],
                            fls)

beginSetPreference(provs, fls, preferenceName, value, resourceUri) ==
    LET fp == getFolderProviders(provs, resourceUri)
        configName == targetConfigName(preferenceName)
    IN runToAwait([status |-> "running",
                   preferenceName |-> preferenceName,
                   value |-> value,
                   resourceUri |-> resourceUri,
                   configName |-> configName,
                   configPath |-> firstConfigPath(fp, 1, fls, resourceUri),
                   scope |-> fp,
                   before |-> fls,
                   iterator |-> initialIterator(candidates(fp, configName)),
                   log |-> <<>>,
                   invokedDisposed |-> {},
                   result |-> FALSE],
                  fls)

answered(log, answer) == [log EXCEPT ![Len(log)].answer = answer]

awaited(c) == c.log[Len(c.log)].provider

\* Bookkeeping of line 151: the ids of the providers whose setPreference was
\* invoked when the provider was no longer in the entry map.
noteInvocation(c, provs) ==
    IF c.status = "awaiting" /\ awaited(c) \notin ToSet(provs)
    THEN [c EXCEPT !.invokedDisposed = @ \cup {awaited(c).id}]
    ELSE c

resumeRetrying(c, fls, accepted) ==
    IF accepted
    THEN [c EXCEPT !.status = "returned",
                   !.result = TRUE,
                   !.log = answered(@, "true")]
    ELSE runToAwait([c EXCEPT !.log = answered(@, "false"),
                              !.iterator = pushNextTier(@, c.log[Len(c.log)])],
                    fls)

resumeIgnoringAnswer(c, fls, accepted) ==
    runToAwait([c EXCEPT !.log = answered(@, IF accepted THEN "true" ELSE "false")], fls)

resume(c, fls, accepted) ==
    IF accepted
    THEN [c EXCEPT !.status = "returned",
                   !.result = TRUE,
                   !.log = answered(@, "true")]
    ELSE runToAwait([c EXCEPT !.log = answered(@, "false")], fls)

----------------------------------------------------------------------------
(* Disposal bookkeeping: DisposableCollection and provider.dispose() *)

pushAndRelease(held, created, disposed) == (held \cup created) \ disposed

Bump(counts, ids) ==
    [i \in DOMAIN counts |-> IF i \in ids THEN counts[i] + 1 ELSE counts[i]]

Extend(counts, ids) ==
    [i \in (DOMAIN counts) \cup ids |-> IF i \in DOMAIN counts THEN counts[i] ELSE 0]

NoPass == [kind |-> "none", n |-> 0]

NoRet == [op |-> "none"]

NoCall == [status |-> "idle"]

----------------------------------------------------------------------------
(* Aggregate readiness (init, lines 30-34) *)

caughtNot(status) == status

\* provider.ready.catch((e) => console.error(e)): the promise init() collects
\* is fulfilled when provider.ready is fulfilled and when it is rejected.
caught(status) == IF status = "rejected" THEN "resolved" ELSE status

\* Promise.all(readyPromises) is fulfilled.
allFulfilled(promises) == \A id \in DOMAIN promises : caught(promises[id]) = "resolved"

----------------------------------------------------------------------------
(* getConfigUri and getContainingConfigUri *)

isConfigUri(configUri) ==
    /\ configUri # NoUri
    /\ getPath(configUri) \in ToSet(Paths)
    /\ getName(configUri) \in ToSet(ConfigNames)

providerContains(entry, resourceUri) ==
    resourceUri = NoResource \/ relativity(folderUri(entry).path, resourceUri.path) >= 0

RECURSIVE firstConfigUri(_, _, _, _)
firstConfigUri(fp, i, fls, resourceUri) ==
    IF i > Len(fp) THEN NoUri
    ELSE IF isConfigUri(providerGetConfigUri(fls, fp[i], resourceUri))
         THEN providerGetConfigUri(fls, fp[i], resourceUri)
         ELSE firstConfigUri(fp, i + 1, fls, resourceUri)

getConfigUri(provs, fls, resourceUri) ==
    firstConfigUri(getFolderProviders(provs, resourceUri), 1, fls, resourceUri)

RECURSIVE firstContainingConfigUri(_, _, _, _)
firstContainingConfigUri(fp, i, fls, resourceUri) ==
    IF i > Len(fp) THEN NoUri
    ELSE IF /\ isConfigUri(providerGetConfigUri(fls, fp[i], NoResource))
            /\ providerContains(fp[i], resourceUri)
         THEN providerGetConfigUri(fls, fp[i], NoResource)
         ELSE firstContainingConfigUri(fp, i + 1, fls, resourceUri)

getContainingConfigUri(provs, fls, resourceUri) ==
    firstContainingConfigUri(getFolderProviders(provs, resourceUri), 1, fls, resourceUri)

----------------------------------------------------------------------------
(* TabbarService (unnamed/part_000) *)

NoContainer == ""

InitTabbar ==
    /\ containersMap = <<>>
    /\ state = <<>>
    /\ storedState = <<>>
    /\ rendered = FALSE
    /\ sortedContainers = <<>>
    /\ currentContainerId = NoContainer

DefaultPriority == 1

MaxContainers == 3

ContainerIds == {"explorer", "search", "debug"}

\* options.priority of a registered component; 0 also stands for an absent
\* priority, which every use in the source treats like 0 (both are falsy).
Priorities == {0, 2}

\* The layouts layoutState.getState can hand to restoreState.
StoredLayouts ==
    { <<>>,
      ("explorer" :> [hidden |-> FALSE, priority |-> 0]),
      ("explorer" :> [hidden |-> FALSE, priority |-> 1]) @@
      ("search" :> [hidden |-> TRUE, priority |-> 0]) }

ComponentInfo(containerId, priority) ==
    [containerId |-> containerId, priority |-> priority]

\* Map.prototype.has on containersMap
has(map, containerId) ==
    \E i \in DOMAIN map : map[i].containerId = containerId

\* Map.prototype.set on state
stateSet(st, containerId, tabState) ==
    [k \in DOMAIN st \cup {containerId} |->
        IF k = containerId THEN tabState ELSE st[k]]

\* Map.prototype.delete on state
stateDelete(st, containerId) ==
    [k \in DOMAIN st \ {containerId} |-> st[k]]

\* Map.prototype.delete on containersMap
containersDelete(map, containerId) ==
    SelectSeq(map, LAMBDA info : info.containerId # containerId)

\* priority || 1
orDefault(priority) ==
    IF priority = 0 THEN DefaultPriority ELSE priority

\* insertIndex of a container registered after render with no stored state
\* (0-based, as in the source)
insertIndexRendered(priority, length) ==
    IF priority # 0
        THEN (IF priority < length THEN priority ELSE length)
        ELSE 0

\* insertIndex of a container registered before render: findIndex of the first
\* item whose priority is not above the new one, or the end (0-based)
insertIndexBeforeRender(list, priority) ==
    LET found == {i \in DOMAIN list :
                     orDefault(list[i].priority) <= orDefault(priority)}
    IN IF found = {}
           THEN Len(list)
           ELSE (CHOOSE i \in found : \A j \in found : i <= j) - 1

\* sortedContainers.splice(insertIndex, 0, componentInfo)
splice(list, insertIndex, componentInfo) ==
    SubSeq(list, 1, insertIndex) \o <<componentInfo>> \o
    SubSeq(list, insertIndex + 1, Len(list))

\* for (i = insertIndex; i < sortedContainers.length; i++)
\*   state.set(sortedContainers[i].options.containerId, {hidden: false, priority: i})
RECURSIVE reindex(_, _, _)
reindex(st, list, i) ==
    IF i >= Len(list)
        THEN st
        ELSE reindex(stateSet(st, list[i + 1].containerId,
                              [hidden |-> FALSE, priority |-> i]),
                     list, i + 1)

\* restoreState: every key of state that has a stored entry takes it
restoreState(st, stored) ==
    [k \in DOMAIN st |-> IF k \in DOMAIN stored THEN stored[k] ELSE st[k]]

\* handleDrop: the two tab states exchange their priorities
swapPriorities(st, containerId, target) ==
    [k \in DOMAIN st |->
        IF k = containerId THEN [st[k] EXCEPT !.priority = st[target].priority]
        ELSE IF k = target THEN [st[k] EXCEPT !.priority = st[containerId].priority]
        ELSE st[k]]

\* Array.prototype.sort by state priority, as an insertion sort: equal
\* priorities keep the order of containersMap
RECURSIVE sortByPriority(_, _)
sortByPriority(components, st) ==
    IF components = <<>> THEN <<>>
    ELSE LET last == components[Len(components)]
             sorted == sortByPriority(SubSeq(components, 1, Len(components) - 1), st)
             before == SelectSeq(sorted, LAMBDA c :
                           st[c.containerId].priority <= st[last.containerId].priority)
             after == SelectSeq(sorted, LAMBDA c :
                           st[c.containerId].priority > st[last.containerId].priority)
         IN before \o <<last>> \o after

\* get visibleContainers
visibleContainers(map, st) ==
    sortByPriority(SelectSeq(map, LAMBDA component :
                       \/ component.containerId \notin DOMAIN st
                       \/ ~st[component.containerId].hidden),
                   st)

\* forceShow of doToggleTab and of the commands: absent, true or false
ForceShow == {"undefined", "true", "false"}

\* doToggleTab(containerId, forceShow): the state and currentContainerId it
\* leaves, and whether it threw (a TypeError on an undefined tab state or on
\* visibleContainers[0] when no container is visible)
doToggleTab(map, st, current, containerId, forceShow) ==
    IF containerId \notin DOMAIN st
    THEN [state |-> st, currentContainerId |-> current, failed |-> TRUE]
    ELSE LET hidden == IF forceShow = "undefined"
                       THEN ~st[containerId].hidden
                       ELSE forceShow = "false"
             toggled == [st EXCEPT ![containerId].hidden = hidden]
             visible == visibleContainers(map, toggled)
         IN IF hidden /\ current = containerId
            THEN IF visible = <<>>
                 THEN [state |-> toggled, currentContainerId |-> current,
                       failed |-> TRUE]
                 ELSE [state |-> toggled,
                       currentContainerId |-> visible[1].containerId,
                       failed |-> FALSE]
            ELSE [state |-> toggled, currentContainerId |-> current,
                  failed |-> FALSE]

\* isEnabled of the command registerGlobalToggleCommand registers
globalToggleEnabled(map, st) ==
    Len(visibleContainers(map, st)) > 1

\* isEnabled of the command registerVisibleToggleCommand registers for
\* containerId; it throws where the container has no tab state
visibleToggleEnabled(map, st, containerId) ==
    /\ containerId \in DOMAIN st
    /\ st[containerId].hidden \/ Len(visibleContainers(map, st)) # 1

----------------------------------------------------------------------------
(* Actions *)

Init ==
    /\ roots = <<>>
    /\ pc = "awaitRoots"
    /\ providers = <<>>
    /\ nextId = 1
    /\ toDispose = {}
    /\ disposeCount = <<>>
    /\ removed = {}
    /\ life = "alive"
    /\ lastPass = NoPass
    /\ files = <<>>
    /\ ret = NoRet
    /\ call = NoCall
    /\ ready = "pending"
    /\ readyPromises = <<>>
    /\ InitTabbar

Pass(kind, rootsBefore, rts) ==
    \E r \in {updateProviders(providers, nextId, rts)} :
       /\ providers' = r.providers
       /\ nextId' = r.nextId
       /\ toDispose' = pushAndRelease(toDispose, r.created, r.disposed)
       /\ disposeCount' = Bump(Extend(disposeCount, r.created), r.disposed)
       /\ removed' = removed \cup (IdsOf(providers) \ IdsOf(r.providers))
       /\ life' = IF life = "alive" THEN "alive" ELSE "passAfterDispose"
       /\ lastPass' = [kind |-> kind,
                       n |-> lastPass.n + 1,
                       rootsBefore |-> rootsBefore,
                       before |-> providers,
                       created |-> r.created,
                       disposed |-> r.disposed]

InitContinue(rts) ==
    /\ ret = NoRet
    /\ pc = "awaitRoots"
    /\ roots' = rts
    /\ Pass("init", roots, rts)
    /\ pc' = "listening"
    /\ ret' = NoRet
    /\ readyPromises' = [id \in IdsOf(providers') |-> "pending"]
    /\ UNCHANGED <<files, call, ready, tabbarVars>>

WorkspaceChangedCancelling(rts) ==
    /\ pc = "listening"
    /\ lastPass.n <= MaxChanges
    /\ roots' = rts
    /\ Pass("change", roots, rts)
    /\ ret' = NoRet
    /\ call' = IF call.status = "awaiting"
               THEN [call EXCEPT !.iterator =
                        SelectSeq(@, LAMBDA closure :
                                         closure.provider \in ToSet(providers'))]
               ELSE call
    /\ UNCHANGED <<pc, files, readyVars, tabbarVars>>

WorkspaceChanged(rts) ==
    /\ pc = "listening"
    /\ lastPass.n <= MaxChanges
    /\ roots' = rts
    /\ Pass("change", roots, rts)
    /\ ret' = NoRet
    /\ UNCHANGED <<pc, files, call, readyVars, tabbarVars>>

Dispose ==
    /\ life = "alive"
    /\ life' = "disposed"
    /\ disposeCount' = Bump(disposeCount, toDispose)
    /\ toDispose' = {}
    /\ ret' = NoRet
    /\ UNCHANGED <<roots, pc, providers, nextId, removed, lastPass, files, call, readyVars, tabbarVars>>

SetFile(slot, content) ==
    /\ ret = NoRet
    /\ Cardinality((DOMAIN files) \cup {slot}) <= MaxFiles
    /\ files' = [s \in (DOMAIN files) \cup {slot} |->
                    IF s = slot THEN content ELSE files[s]]
    /\ ret' = NoRet
    /\ UNCHANGED <<roots, pc, providers, nextId, toDispose, disposeCount, removed,
                   life, lastPass, call, readyVars, tabbarVars>>

RemoveFile(slot) ==
    /\ ret = NoRet
    /\ slot \in DOMAIN files
    /\ files' = [s \in (DOMAIN files) \ {slot} |-> files[s]]
    /\ ret' = NoRet
    /\ UNCHANGED <<roots, pc, providers, nextId, toDispose, disposeCount, removed,
                   life, lastPass, call, readyVars, tabbarVars>>

Returns(r) ==
    /\ ret = NoRet
    /\ ret' = r
    /\ UNCHANGED <<roots, pc, providers, nextId, toDispose, disposeCount, removed,
                   life, lastPass, files, call, readyVars, tabbarVars>>

Return ==
    /\ ret.op \in {"getFolderProviders", "resolve", "getPreferences", "getConfigUri",
                   "getContainingConfigUri"}
    /\ ret' = NoRet
    /\ UNCHANGED <<roots, pc, providers, nextId, toDispose, disposeCount, removed,
                   life, lastPass, files, call, readyVars, tabbarVars>>

GetFolderProvidersAliased(resourceUri) ==
    /\ ret = NoRet
    /\ ret' = [op |-> "getFolderProviders",
               resourceUri |-> resourceUri,
               result |-> getFolderProviders(providers, resourceUri)]
    /\ providers' = getFolderProviders(providers, resourceUri)
    /\ UNCHANGED <<roots, pc, nextId, toDispose, disposeCount, removed, life, lastPass,
                   files, call, readyVars, tabbarVars>>

GetFolderProviders(resourceUri) ==
    Returns([op |-> "getFolderProviders",
             resourceUri |-> resourceUri,
             result |-> getFolderProviders(providers, resourceUri)])

Resolve(preferenceName, resourceUri) ==
    /\ ret = NoRet
    /\ \E r \in {resolve(providers, files, preferenceName, resourceUri)} :
       Returns([op |-> "resolve",
                preferenceName |-> preferenceName,
                resourceUri |-> resourceUri,
                groups |-> GroupNames(groupProvidersByConfigName(providers, resourceUri)),
                value |-> r.value,
                configUri |-> r.configUri,
                consulted |-> r.consulted])

GetPreferences(resourceUri) ==
    /\ ret = NoRet
    /\ \E r \in {getPreferences(providers, files, resourceUri)} :
       Returns([op |-> "getPreferences",
                resourceUri |-> resourceUri,
                groups |-> GroupNames(groupProvidersByConfigName(providers, resourceUri)),
                value |-> r.value,
                consulted |-> r.consulted])

WriteCandidates(preferenceName, resourceUri) ==
    IdsOf(candidates(getFolderProviders(providers, resourceUri),
                     targetConfigName(preferenceName)))

SetPreference(preferenceName, value, resourceUri) ==
    /\ ret = NoRet
    /\ \E accepts \in SUBSET WriteCandidates(preferenceName, resourceUri) :
       \E r \in {setPreference(providers, files, preferenceName, resourceUri, accepts)} :
          /\ ret' = [op |-> "setPreference",
                     preferenceName |-> preferenceName,
                     resourceUri |-> resourceUri,
                     value |-> value,
                     configName |-> r.configName,
                     configPath |-> r.configPath,
                     result |-> r.result,
                     attempts |-> r.attempts,
                     consulted |-> r.consulted]
          /\ files' = IF r.result
                      THEN providerSetPreference(files,
                                                 r.attempts[Len(r.attempts)].provider,
                                                 preferenceName, value)
                      ELSE files
    /\ UNCHANGED <<roots, pc, providers, nextId, toDispose, disposeCount, removed,
                   life, lastPass, call, readyVars, tabbarVars>>

BeginSetPreference(preferenceName, value, resourceUri) ==
    /\ ret = NoRet
    /\ call = NoCall
    /\ \E c \in {beginSetPreference(providers, files, preferenceName, value, resourceUri)} :
          call' = c
    /\ UNCHANGED <<roots, pc, providers, nextId, toDispose, disposeCount, removed,
                   life, lastPass, files, ret, readyVars, tabbarVars>>

ProviderAnswers(accepted) ==
    /\ ret = NoRet
    /\ call.status = "awaiting"
    /\ files' = IF accepted
                THEN providerSetPreference(files, awaited(call), call.preferenceName,
                                           call.value)
                ELSE files
    /\ \E c \in {resume(call, files, accepted)} : call' = noteInvocation(c, providers)
    /\ UNCHANGED <<roots, pc, providers, nextId, toDispose, disposeCount, removed,
                   life, lastPass, ret, readyVars, tabbarVars>>

GetConfigUri(resourceUri) ==
    Returns([op |-> "getConfigUri",
             resourceUri |-> resourceUri,
             configUri |-> getConfigUri(providers, files, resourceUri)])

GetContainingConfigUri(resourceUri) ==
    Returns([op |-> "getContainingConfigUri",
             resourceUri |-> resourceUri,
             configUri |-> getContainingConfigUri(providers, files, resourceUri)])

ProviderReadySettles(id, outcome) ==
    /\ id \in DOMAIN readyPromises
    /\ readyPromises[id] = "pending"
    /\ readyPromises' = [readyPromises EXCEPT ![id] = outcome]
    /\ UNCHANGED <<roots, pc, providers, nextId, toDispose, disposeCount, removed,
                   life, lastPass, files, ret, call, ready, tabbarVars>>

ReadyResolve ==
    /\ pc = "listening"
    /\ ready = "pending"
    /\ allFulfilled(readyPromises)
    /\ ready' = "resolved"
    /\ UNCHANGED <<roots, pc, providers, nextId, toDispose, disposeCount, removed,
                   life, lastPass, files, ret, call, readyPromises, tabbarVars>>

Next ==
    \/ \E rts \in RootLists : InitContinue(rts)
    \/ \E rts \in RootLists : WorkspaceChanged(rts)
    \/ Dispose

Spec == Init /\ [][Next]_vars

NextCalls ==
    \/ \E rts \in RootLists : InitContinue(rts)
    \/ \E slot \in Slots : \E content \in FileContents(slot) : SetFile(slot, content)
    \/ \E slot \in Slots : RemoveFile(slot)
    \/ \E resourceUri \in Resources : GetFolderProviders(resourceUri)
    \/ \E preferenceName \in PrefNames, resourceUri \in Resources :
          Resolve(preferenceName, resourceUri)
    \/ \E resourceUri \in Resources : GetPreferences(resourceUri)
    \/ \E preferenceName \in PrefNames, resourceUri \in Resources :
          SetPreference(preferenceName, WrittenValue, resourceUri)
    \/ Return

SpecCalls == Init /\ [][NextCalls]_vars

NextWrite ==
    \/ \E rts \in RootLists : InitContinue(rts)
    \/ \E slot \in Slots : \E content \in {c \in FileContents(slot) : c.cfg} :
          call = NoCall /\ SetFile(slot, content)
    \/ \E slot \in Slots : call = NoCall /\ RemoveFile(slot)
    \/ \E preferenceName \in WritePrefNames, resourceUri \in Resources :
          BeginSetPreference(preferenceName, WrittenValue, resourceUri)
    \/ \E accepted \in BOOLEAN : ProviderAnswers(accepted)
    \/ \E preferenceName \in WritePrefNames, resourceUri \in Resources :
          call.status # "awaiting" /\ Resolve(preferenceName, resourceUri)
    \/ \E resourceUri \in Resources :
          call.status # "awaiting" /\ GetPreferences(resourceUri)
    \/ \E resourceUri \in Resources :
          call.status # "awaiting" /\ GetFolderProviders(resourceUri)
    \/ \E resourceUri \in Resources :
          call.status # "awaiting" /\ GetConfigUri(resourceUri)
    \/ \E resourceUri \in Resources :
          call.status # "awaiting" /\ GetContainingConfigUri(resourceUri)
    \/ Return

SpecWrite == Init /\ [][NextWrite]_vars

\* setPreference alone, with every awaited provider.setPreference settling:
\* the promise awaited at line 151 is eventually resolved with true or false.
NextSettling ==
    \/ \E rts \in RootLists : InitContinue(rts)
    \/ \E slot \in Slots : \E content \in {c \in FileContents(slot) : c.cfg} :
          call = NoCall /\ SetFile(slot, content)
    \/ \E preferenceName \in WritePrefNames, resourceUri \in Resources :
          BeginSetPreference(preferenceName, WrittenValue, resourceUri)
    \/ \E accepted \in BOOLEAN : ProviderAnswers(accepted)

SpecWriteSettling ==
    Init /\ [][NextSettling]_vars /\ WF_vars(\E accepted \in BOOLEAN : ProviderAnswers(accepted))

\* setPreference with one workspace-root change event delivered while it is
\* suspended at the await of line 151, over workspaces with at most one
\* config file, present from the start.
NextWriteChange ==
    \/ \E rts \in RootLists : InitContinue(rts)
    \/ \E slot \in Slots : \E content \in {c \in FileContents(slot) : c.cfg} :
          pc = "awaitRoots" /\ files = <<>> /\ SetFile(slot, content)
    \/ \E preferenceName \in WritePrefNames, resourceUri \in Resources :
          BeginSetPreference(preferenceName, WrittenValue, resourceUri)
    \/ \E rts \in RootLists :
          call.status = "awaiting" /\ lastPass.kind = "init" /\ WorkspaceChanged(rts)
    \/ \E accepted \in BOOLEAN : ProviderAnswers(accepted)

SpecWriteChange == Init /\ [][NextWriteChange]_vars

\* The aggregate readiness, over the providers of a first pass with at most
\* one root (Len(Paths) * Len(ConfigNames) providers).
NextReady ==
    \/ \E rts \in {r \in RootLists : Len(r) <= 1} : InitContinue(rts)
    \/ \E id \in DOMAIN readyPromises, outcome \in {"resolved", "rejected"} :
          ProviderReadySettles(id, outcome)
    \/ ReadyResolve

SpecReady == Init /\ [][NextReady]_vars /\ WF_vars(ReadyResolve)

----------------------------------------------------------------------------
(* TabbarService: actions *)

\* registerContainer(containerId, componentInfo), componentInfo.options.priority
\* being priority
RegisterContainer(containerId, priority) ==
    /\ ~has(containersMap, containerId)
    /\ containersMap' = Append(containersMap, ComponentInfo(containerId, priority))
    /\ IF rendered /\ containerId \in DOMAIN storedState
           THEN /\ state' = stateSet(state, containerId, storedState[containerId])
                /\ UNCHANGED sortedContainers
           ELSE /\ Len(sortedContainers) < MaxContainers
                /\ \E insertIndex \in
                       {IF rendered
                            THEN insertIndexRendered(priority, Len(sortedContainers))
                            ELSE insertIndexBeforeRender(sortedContainers, priority)} :
                       /\ sortedContainers' =
                              splice(sortedContainers, insertIndex,
                                     ComponentInfo(containerId, priority))
                       /\ state' = reindex(state, sortedContainers', insertIndex)
    /\ UNCHANGED <<storedState, rendered, currentContainerId, preferencesVars>>

\* disposeContainer(containerId): the registration's disposables delete the
\* container from containersMap and from state
DisposeContainer(containerId) ==
    /\ has(containersMap, containerId)
    /\ containersMap' = containersDelete(containersMap, containerId)
    /\ state' = stateDelete(state, containerId)
    /\ UNCHANGED <<storedState, rendered, sortedContainers, currentContainerId,
                   preferencesVars>>

\* onDidRender, the RenderedEvent handler; stored is what layoutState holds
OnDidRender(stored) ==
    /\ ~rendered
    /\ storedState' = stored
    /\ state' = restoreState(state, stored)
    /\ rendered' = TRUE
    /\ UNCHANGED <<containersMap, sortedContainers, currentContainerId,
                   preferencesVars>>

\* handleDrop(e, target), containerId being the dragged tab
HandleDrop(containerId, target) ==
    /\ containerId \in DOMAIN state
    /\ target \in DOMAIN state
    /\ state' = swapPriorities(state, containerId, target)
    /\ UNCHANGED <<containersMap, storedState, rendered, sortedContainers,
                   currentContainerId, preferencesVars>>

NextTabbar ==
    \/ \E containerId \in ContainerIds, priority \in Priorities :
          RegisterContainer(containerId, priority)
    \/ \E containerId \in ContainerIds : DisposeContainer(containerId)
    \/ \E stored \in StoredLayouts : OnDidRender(stored)
    \/ \E containerId \in ContainerIds, target \in ContainerIds :
          HandleDrop(containerId, target)

SpecTabbar == Init /\ [][NextTabbar]_vars

\* handleTabClick on the tab of a visible container
HandleTabClick(containerId, forbidCollapse) ==
    /\ \E i \in DOMAIN visibleContainers(containersMap, state) :
          visibleContainers(containersMap, state)[i].containerId = containerId
    /\ currentContainerId' = IF containerId = currentContainerId /\ ~forbidCollapse
                             THEN NoContainer
                             ELSE containerId
    /\ UNCHANGED <<containersMap, state, storedState, rendered, sortedContainers,
                   preferencesVars>>

\* The activate command registerActivateKeyBinding registers for a container;
\* toggles is (location = 'bottom' and no forceShow)
ActivateCommand(containerId, toggles) ==
    /\ has(containersMap, containerId)
    /\ currentContainerId' = IF toggles /\ currentContainerId = containerId
                             THEN NoContainer
                             ELSE containerId
    /\ UNCHANGED <<containersMap, state, storedState, rendered, sortedContainers,
                   preferencesVars>>

\* What a call of doToggleTab leaves behind
DoToggleTab(containerId, forceShow) ==
    \E r \in {doToggleTab(containersMap, state, currentContainerId, containerId,
                          forceShow)} :
       /\ state' = r.state
       /\ currentContainerId' = r.currentContainerId
       /\ UNCHANGED <<containersMap, storedState, rendered, sortedContainers,
                      preferencesVars>>

\* The command activity.bar.toggle.<location>, run from the context menu of
\* the tab of a visible container
GlobalToggleCommand(containerId) ==
    /\ globalToggleEnabled(containersMap, state)
    /\ has(containersMap, containerId)
    /\ DoToggleTab(containerId, "undefined")

\* The command activity.bar.toggle.<containerId>
VisibleToggleCommand(containerId, forceShow) ==
    /\ has(containersMap, containerId)
    /\ visibleToggleEnabled(containersMap, state, containerId)
    /\ DoToggleTab(containerId, forceShow)

\* Showing, hiding and activating the tabs of registered containers
NextToggle ==
    \/ \E containerId \in ContainerIds, priority \in Priorities :
          RegisterContainer(containerId, priority)
    \/ \E stored \in StoredLayouts : OnDidRender(stored)
    \/ \E containerId \in ContainerIds, forbidCollapse \in BOOLEAN :
          HandleTabClick(containerId, forbidCollapse)
    \/ \E containerId \in ContainerIds, toggles \in BOOLEAN :
          ActivateCommand(containerId, toggles)
    \/ \E containerId \in ContainerIds : GlobalToggleCommand(containerId)
    \/ \E containerId \in ContainerIds, forceShow \in ForceShow :
          VisibleToggleCommand(containerId, forceShow)

SpecToggle == Init /\ [][NextToggle]_vars

----------------------------------------------------------------------------
(* Provider Registry: properties *)

DesiredSet(rts) ==
    {createUri(f, p, n) : f \in ToSet(rts), p \in ToSet(Paths),
                          n \in ToSet(SectionNames) \cup {ConfigName}}

ProvidersFor(key) == {j \in 1..Len(providers) : providers[j].key = key}

\* C1: after any recomputation pass the registry holds exactly one provider
\* for every key of the current desired set (roots x paths x (section names
\* plus the default config name)) and no provider for any other key.
C1_RegistryIsDesiredSet ==
    lastPass.kind # "none" =>
        /\ KeysOf(providers) = DesiredSet(roots)
        /\ \A key \in DesiredSet(roots) : Cardinality(ProvidersFor(key)) = 1
        /\ Cardinality(IdsOf(providers)) = Len(providers)

C1_Witness ==
    /\ lastPass.kind = "change"
    /\ lastPass.created # {}
    /\ lastPass.disposed # {}
    /\ Len(providers) = 2 * Len(Paths) * Len(ConfigNames)

\* C2: a recomputation pass that runs with the same root set as the pass
\* before it creates no provider, disposes no provider and leaves the
\* registry map as it was.
C2_SecondPassIsNoOp ==
    (lastPass.kind = "change" /\ ToSet(lastPass.rootsBefore) = ToSet(roots)) =>
        /\ lastPass.created = {}
        /\ lastPass.disposed = {}
        /\ providers = lastPass.before

C2_Witness ==
    /\ lastPass.kind = "change"
    /\ ToSet(lastPass.rootsBefore) = ToSet(roots)
    /\ lastPass.rootsBefore # roots
    /\ lastPass.created = {}
    /\ Len(providers) = 2 * Len(Paths) * Len(ConfigNames)

----------------------------------------------------------------------------
(* Folder Selector: properties *)

RegisteredFolders == {folderUri(providers[j]) : j \in 1..Len(providers)}

Qualifying(resourceUri) ==
    {f \in RegisteredFolders : relativity(f.path, resourceUri.path) >= 0}

Min(S) == CHOOSE m \in S : \A n \in S : m <= n

Max(S) == CHOOSE m \in S : \A n \in S : n <= m

FirstRegistered(f) == Min({j \in 1..Len(providers) : folderUri(providers[j]) = f})

Beats(f, g, resourceUri) ==
    LET rf == relativity(f.path, resourceUri.path)
        rg == relativity(g.path, resourceUri.path)
    IN rf < rg \/ (rf = rg /\ FirstRegistered(f) < FirstRegistered(g))

IsWinner(f, resourceUri) ==
    /\ f \in Qualifying(resourceUri)
    /\ \A g \in Qualifying(resourceUri) \ {f} : Beats(f, g, resourceUri)

ProvidersOfFolder(f) == SelectSeq(providers, LAMBDA e : folderUri(e) = f)

\* C4: for a resource URI getFolderProviders returns all and only the
\* registered providers of the folder with the smallest non-negative
\* relativity, the first registered of them on a tie; with /a and /a/b
\* registered a resource /a/b/c.ts gets none of /a's providers.
C4_FolderSelectorPicksClosest ==
    (ret.op = "getFolderProviders" /\ ret.resourceUri # NoResource) =>
        /\ \A f \in RegisteredFolders :
              IsWinner(f, ret.resourceUri) => ret.result = ProvidersOfFolder(f)
        /\ (ret.resourceUri = ResourceABC /\ {FolderA, FolderAB} \subseteq RegisteredFolders) =>
              /\ ret.result # <<>>
              /\ \A i \in 1..Len(ret.result) : folderUri(ret.result[i]) # FolderA
              /\ FolderX \notin RegisteredFolders => ret.result = ProvidersOfFolder(FolderAB)

C4_Witness ==
    /\ ret.op = "getFolderProviders"
    /\ ret.resourceUri = ResourceABC
    /\ roots = <<FolderX, FolderAB>>
    /\ ret.result = ProvidersOfFolder(FolderX)
    /\ Len(ret.result) = Len(Paths) * Len(ConfigNames)

\* C5: getFolderProviders returns the empty list when no resource URI is
\* given or no registered folder has non-negative relativity to the
\* resource, and resolve, getPreferences and setPreference only ever consult
\* (and setPreference only ever writes through) providers whose folder is an
\* ancestor of (or equal to) the resource path.
C5_UnrelatedFoldersNeverConsulted ==
    /\ (ret.op = "getFolderProviders"
        /\ (ret.resourceUri = NoResource \/ Qualifying(ret.resourceUri) = {})) =>
            ret.result = <<>>
    /\ ret.op \in {"resolve", "getPreferences", "setPreference"} =>
            \A i \in 1..Len(ret.consulted) :
                /\ ret.resourceUri # NoResource
                /\ relativity(folderUri(ret.consulted[i]).path, ret.resourceUri.path) >= 0
    /\ ret.op = "setPreference" =>
            \A i \in 1..Len(ret.attempts) :
                /\ ret.resourceUri # NoResource
                /\ relativity(folderUri(ret.attempts[i].provider).path,
                              ret.resourceUri.path) >= 0

C5_Witness ==
    /\ ret.op = "getFolderProviders"
    /\ ret.resourceUri = ResourceAX
    /\ providers # <<>>
    /\ Qualifying(ret.resourceUri) = {}
    /\ ret.result = <<>>

----------------------------------------------------------------------------
(* Resolution Engine: properties *)

WalkOrder == <<ConfigName>> \o SectionNames

GroupOf(resourceUri, configName) ==
    SelectSeq(getFolderProviders(providers, resourceUri),
              LAMBDA e : getName(e.key) = configName)

Defines(entry, preferenceName, resourceUri) ==
    /\ providerResolve(files, entry, preferenceName, resourceUri).value # Undefined
    /\ providerResolve(files, entry, preferenceName, resourceUri).configUri # NoUri

FirstDefining(preferenceName, resourceUri, configName) ==
    LET grp == GroupOf(resourceUri, configName)
        idx == {i \in 1..Len(grp) : Defines(grp[i], preferenceName, resourceUri)}
    IN IF idx = {} THEN 0 ELSE Min(idx)

Contribution(preferenceName, resourceUri, configName) ==
    LET i == FirstDefining(preferenceName, resourceUri, configName)
    IN IF i = 0 THEN Undefined
       ELSE providerResolve(files, GroupOf(resourceUri, configName)[i],
                            preferenceName, resourceUri).value

ConsultedIn(preferenceName, resourceUri, configName) ==
    LET i == FirstDefining(preferenceName, resourceUri, configName)
        grp == GroupOf(resourceUri, configName)
    IN IF i = 0 THEN grp ELSE SubSeq(grp, 1, i)

MergeDefined(acc, value) == IF value = Undefined THEN acc ELSE merge(acc, value)

RECURSIVE MergedContributions(_, _, _)
MergedContributions(preferenceName, resourceUri, g) ==
    IF g = 0 THEN Undefined
    ELSE MergeDefined(MergedContributions(preferenceName, resourceUri, g - 1),
                      Contribution(preferenceName, resourceUri, WalkOrder[g]))

RECURSIVE ConsultedUpTo(_, _, _)
ConsultedUpTo(preferenceName, resourceUri, g) ==
    IF g = 0 THEN <<>>
    ELSE ConsultedUpTo(preferenceName, resourceUri, g - 1)
         \o ConsultedIn(preferenceName, resourceUri, WalkOrder[g])

ContributingSections(preferenceName, resourceUri) ==
    {s \in ToSet(SectionNames) : FirstDefining(preferenceName, resourceUri, s) # 0}

SectionAndDefaultDefine ==
    /\ ret.op = "resolve"
    /\ Cardinality(ContributingSections(ret.preferenceName, ret.resourceUri)) = 1
    /\ FirstDefining(ret.preferenceName, ret.resourceUri, ConfigName) # 0

TheSection == CHOOSE s \in ContributingSections(ret.preferenceName, ret.resourceUri) : TRUE

\* C6 as stated: when a section provider and a default-config provider of the
\* winning folder both define the preference with a config URI, resolve
\* returns the section provider's value.
C6_Original ==
    SectionAndDefaultDefine =>
        ret.value = Contribution(ret.preferenceName, ret.resourceUri, TheSection)

\* C6 as amended: in that case resolve returns the default provider's value
\* deep-merged with the section provider's value on top, with the section
\* provider's config URI: the section provider's value itself unless both
\* values are objects, and then an object that holds every key of the section
\* provider's value, with the section's value wherever that is not an object.
C6_SectionOverridesDefault ==
    SectionAndDefaultDefine =>
        LET sv == Contribution(ret.preferenceName, ret.resourceUri, TheSection)
            dv == Contribution(ret.preferenceName, ret.resourceUri, ConfigName)
        IN /\ ret.value = merge(dv, sv)
           /\ (sv.t # "obj" \/ dv.t # "obj") => ret.value = sv
           /\ (sv.t = "obj" /\ dv.t = "obj") =>
                 /\ ret.value.t = "obj"
                 /\ \A k \in DOMAIN sv.m :
                       /\ k \in DOMAIN ret.value.m
                       /\ sv.m[k].t # "obj" => ret.value.m[k] = sv.m[k]
                 /\ \A k \in (DOMAIN dv.m) \ (DOMAIN sv.m) :
                       k \in DOMAIN ret.value.m /\ ret.value.m[k] = dv.m[k]
           /\ ret.configUri =
                 GroupOf(ret.resourceUri, TheSection)[
                     FirstDefining(ret.preferenceName, ret.resourceUri, TheSection)].key

C6_Witness ==
    /\ SectionAndDefaultDefine
    /\ ret.preferenceName = "x"
    /\ TheSection = "launch"
    /\ Contribution("x", ret.resourceUri, "launch") = Prim(1)
    /\ Contribution("x", ret.resourceUri, ConfigName) = Prim(2)
    /\ ret.value = Prim(1)

Rank(configName) == Min({g \in 1..Len(WalkOrder) : WalkOrder[g] = configName})

\* C7 as stated: resolve and getPreferences walk one group per declared
\* section name, in declared order, and the default config name's group last.
C7_Original ==
    ret.op \in {"resolve", "getPreferences"} =>
        ret.groups = SectionNames \o <<ConfigName>>

\* C7 as amended: resolve and getPreferences walk the default config name's
\* group first and then one group per declared section name, in the declared
\* order of the section names.
C7_DefaultGroupFirst ==
    ret.op \in {"resolve", "getPreferences"} =>
        /\ ret.groups = <<ConfigName>> \o SectionNames
        /\ \A i, j \in 1..Len(ret.consulted) :
              i < j => Rank(getName(ret.consulted[i].key)) <= Rank(getName(ret.consulted[j].key))

C7_Witness ==
    /\ ret.op = "resolve"
    /\ Len(ret.consulted) = Len(Paths) * Len(ConfigNames)
    /\ getName(ret.consulted[1].key) = ConfigName
    /\ getName(ret.consulted[Len(ret.consulted)].key) = SectionNames[Len(SectionNames)]

\* C8: in resolve each group contributes the value of its first provider (in
\* folder-selector order) that answers with both a defined value and a
\* config URI, no later provider of that group is consulted, and the
\* contributions are merged right-biased in group-walk order.
C8_FirstContributorPerGroup ==
    ret.op = "resolve" =>
        /\ ret.value = MergedContributions(ret.preferenceName, ret.resourceUri, Len(WalkOrder))
        /\ ret.consulted = ConsultedUpTo(ret.preferenceName, ret.resourceUri, Len(WalkOrder))

C8_Witness ==
    /\ ret.op = "resolve"
    /\ ret.preferenceName = "launch.foo"
    /\ \E g \in ToSet(WalkOrder) :
          /\ Len(GroupOf(ret.resourceUri, g)) = 2
          /\ FirstDefining("launch.foo", ret.resourceUri, g) = 1
          /\ Defines(GroupOf(ret.resourceUri, g)[2], "launch.foo", ret.resourceUri)
          /\ GroupOf(ret.resourceUri, g)[2] \notin ToSet(ret.consulted)
          /\ ret.value = Contribution("launch.foo", ret.resourceUri, g)

ContributingGroups(preferenceName, resourceUri) ==
    {g \in 1..Len(WalkOrder) : FirstDefining(preferenceName, resourceUri, WalkOrder[g]) # 0}

\* C9: the configUri resolve returns is that of the last group in walk order
\* that contributed a defined value; when no group contributed the value and
\* the configUri are both undefined, and while init is still awaiting the
\* roots (empty registry) every resolve call returns that empty result.
C9_ConfigUriOfLastContributor ==
    /\ ret.op = "resolve" =>
          LET cg == ContributingGroups(ret.preferenceName, ret.resourceUri)
          IN IF cg = {}
             THEN ret.value = Undefined /\ ret.configUri = NoUri
             ELSE /\ ret.value # Undefined
                  /\ ret.configUri =
                        GroupOf(ret.resourceUri, WalkOrder[Max(cg)])[
                            FirstDefining(ret.preferenceName, ret.resourceUri,
                                          WalkOrder[Max(cg)])].key
    /\ pc = "awaitRoots" =>
          \A n \in PrefNames, r \in Resources :
              /\ resolve(providers, files, n, r).value = Undefined
              /\ resolve(providers, files, n, r).configUri = NoUri

C9_Witness ==
    /\ ret.op = "resolve"
    /\ Cardinality(ContributingGroups(ret.preferenceName, ret.resourceUri)) = 2
    /\ getName(ret.configUri) # ConfigName
    /\ getPath(ret.configUri) = Paths[2]

FirstWithUri(resourceUri, configName) ==
    LET grp == GroupOf(resourceUri, configName)
        idx == {i \in 1..Len(grp) : providerGetConfigUri(files, grp[i], resourceUri) # NoUri}
    IN IF idx = {} THEN 0 ELSE Min(idx)

RECURSIVE MergedPreferences(_, _)
MergedPreferences(resourceUri, g) ==
    IF g = 0 THEN Obj(<<>>)
    ELSE LET i == FirstWithUri(resourceUri, WalkOrder[g])
             sofar == MergedPreferences(resourceUri, g - 1)
         IN IF i = 0 THEN sofar
            ELSE merge(sofar, providerGetPreferences(files, GroupOf(resourceUri, WalkOrder[g])[i]))

RECURSIVE ScannedUpTo(_, _)
ScannedUpTo(resourceUri, g) ==
    IF g = 0 THEN <<>>
    ELSE LET i == FirstWithUri(resourceUri, WalkOrder[g])
             grp == GroupOf(resourceUri, WalkOrder[g])
         IN ScannedUpTo(resourceUri, g - 1) \o (IF i = 0 THEN grp ELSE SubSeq(grp, 1, i))

MergeUnionExample ==
    /\ ret.op = "getPreferences"
    /\ \E g, h \in ToSet(WalkOrder) :
          /\ g # h
          /\ FirstWithUri(ret.resourceUri, g) # 0
          /\ FirstWithUri(ret.resourceUri, h) # 0
          /\ \A k \in ToSet(WalkOrder) \ {g, h} : FirstWithUri(ret.resourceUri, k) = 0
          /\ providerGetPreferences(files,
                 GroupOf(ret.resourceUri, g)[FirstWithUri(ret.resourceUri, g)])
               = Obj([x |-> Prim(1)])
          /\ providerGetPreferences(files,
                 GroupOf(ret.resourceUri, h)[FirstWithUri(ret.resourceUri, h)])
               = Obj([y |-> Prim(2)])

\* C10: getPreferences returns the right-biased merge, over the groups in
\* walk order, of the whole preference mapping of the first provider of each
\* group that has a config URI for the resource, skipping the later providers
\* of that group; {x:1} from one group and {y:2} from another give {x:1, y:2}.
C10_GetPreferencesMergesGroups ==
    ret.op = "getPreferences" =>
        /\ ret.value = MergedPreferences(ret.resourceUri, Len(WalkOrder))
        /\ ret.consulted = ScannedUpTo(ret.resourceUri, Len(WalkOrder))
        /\ MergeUnionExample => ret.value = Obj([x |-> Prim(1), y |-> Prim(2)])

C10_Witness ==
    /\ MergeUnionExample
    /\ ret.value = Obj([x |-> Prim(1), y |-> Prim(2)])

----------------------------------------------------------------------------
(* Resolution Engine: properties of setPreference *)

CallStarted == call.status # "idle"

Attempts == SelectSeq(call.log, LAMBDA e : e.yielded)

TierRank(tier) == CASE tier = "a" -> 1 [] tier = "b" -> 2 [] OTHER -> 3

ScopeIndex(p) == Min({i \in 1..Len(call.scope) : call.scope[i] = p})

HadConfigUri(p) == providerGetConfigUri(call.before, p, call.resourceUri) # NoUri

ExpectedTarget(preferenceName) ==
    IF preferenceName = "launch.foo" THEN "launch" ELSE "settings"

CallCandidates ==
    {p \in ToSet(call.scope) : getName(p.key) = ExpectedTarget(call.preferenceName)}

RefusedBefore(q, j) ==
    \E i \in 1..(j - 1) :
        call.log[i].provider = q /\ call.log[i].yielded /\ call.log[i].answer = "false"

UnqualifiedBefore(q, rank, j) ==
    \E i \in 1..(j - 1) :
        /\ call.log[i].provider = q
        /\ TierRank(call.log[i].tier) = rank
        /\ ~call.log[i].yielded

\* C11: setPreference evaluates its candidates tier by tier: (a) those whose
\* config file exists for the resource, (b) those whose config path is the
\* path of a provider that has a config URI for the resource, (c) the
\* remaining ones regardless; a tier is entered only after every candidate
\* has, in the tier before, not qualified or refused the write; within a
\* tier the candidates keep folder-selector order; and a refusal makes the
\* search go on with the next candidate.
C11_ThreeTiersInOrder ==
    CallStarted =>
        /\ \A i, j \in 1..Len(call.log) :
              i < j =>
                 /\ TierRank(call.log[i].tier) <= TierRank(call.log[j].tier)
                 /\ call.log[i].tier = call.log[j].tier =>
                       ScopeIndex(call.log[i].provider) < ScopeIndex(call.log[j].provider)
        /\ \A j \in 1..Len(call.log) :
              LET e == call.log[j]
              IN /\ e.tier = "a" => (e.yielded <=> HadConfigUri(e.provider))
                 /\ (e.tier = "b" /\ e.yielded) =>
                       \E q \in ToSet(call.scope) :
                           HadConfigUri(q) /\ getPath(q.key) = getPath(e.provider.key)
                 /\ e.tier = "c" => e.yielded
                 /\ e.tier # "a" =>
                       /\ UnqualifiedBefore(e.provider, TierRank(e.tier) - 1, j)
                       /\ \A q \in CallCandidates :
                             \/ RefusedBefore(q, j)
                             \/ UnqualifiedBefore(q, TierRank(e.tier) - 1, j)
        /\ \A i \in 1..(Len(Attempts) - 1) : Attempts[i].answer = "false"
        /\ (call.status = "returned" /\ ~call.result) =>
              \A q \in CallCandidates :
                  \E i \in 1..Len(Attempts) :
                      Attempts[i].provider = q /\ Attempts[i].answer = "false"

C11_Witness ==
    /\ call.status = "returned"
    /\ call.result
    /\ Len(call.log) = 5
    /\ Len(Attempts) = 2
    /\ Attempts[1].tier = "b" /\ Attempts[1].answer = "false"
    /\ Attempts[2].tier = "c" /\ Attempts[2].answer = "true"
    /\ ScopeIndex(Attempts[1].provider) < ScopeIndex(Attempts[2].provider)

WrittenThrough(p) ==
    providerSetPreference(call.before, p, call.preferenceName, call.value)

\* C12: setPreference returns true as soon as one candidate's setPreference
\* answers true, with no write attempt after that one, and it returns false
\* exactly when every candidate has refused (or there was no candidate);
\* only an accepted write changes a config file.
C12_TrueOnFirstAcceptedWrite ==
    CallStarted =>
        /\ \A i \in 1..Len(Attempts) :
              Attempts[i].answer = "true" =>
                 /\ i = Len(Attempts)
                 /\ call.status = "returned"
                 /\ call.result
        /\ call.status = "returned" =>
              /\ call.result <=>
                    (Attempts # <<>> /\ Attempts[Len(Attempts)].answer = "true")
              /\ ~call.result <=>
                    \A q \in CallCandidates :
                        \E i \in 1..Len(Attempts) :
                            Attempts[i].provider = q /\ Attempts[i].answer = "false"
              /\ files = IF call.result
                         THEN WrittenThrough(Attempts[Len(Attempts)].provider)
                         ELSE call.before
        /\ call.status = "awaiting" =>
              /\ Attempts[Len(Attempts)].answer = "pending"
              /\ files = call.before

C12_Witness ==
    /\ call.status = "returned"
    /\ call.result
    /\ Len(Attempts) = 1
    /\ Cardinality(CallCandidates) = 2
    /\ call.iterator # <<>>
    /\ files # call.before

\* C13: setPreference attempts a write only on registered providers of the
\* winning folder of the resource whose config name is the target name: the
\* first dot-delimited segment of the preference name when that is a known
\* section name ("launch.foo" goes to "launch"), the default config name
\* otherwise ("foo.bar" goes to "settings").
C13_WritesOnlyWinningFolderAndTargetName ==
    CallStarted =>
        /\ call.configName = ExpectedTarget(call.preferenceName)
        /\ \A i \in 1..Len(call.log) :
              /\ call.resourceUri # NoResource
              /\ call.log[i].provider \in ToSet(providers)
              /\ IsWinner(folderUri(call.log[i].provider), call.resourceUri)
              /\ getName(call.log[i].provider.key) = ExpectedTarget(call.preferenceName)

C13_Witness ==
    /\ call.status = "returned"
    /\ call.preferenceName = "launch.foo"
    /\ Len(Attempts) = Len(Paths)
    /\ Cardinality(RegisteredFolders) = 2
    /\ Cardinality(Qualifying(call.resourceUri)) = 2
    /\ \A i \in 1..Len(Attempts) : getName(Attempts[i].provider.key) = "launch"

WithConfigUri == {i \in 1..Len(call.scope) : HadConfigUri(call.scope[i])}

SiblingHasConfigUri(p) ==
    \E q \in ToSet(call.scope) \ {p} :
        HadConfigUri(q) /\ getPath(q.key) = getPath(p.key)

\* C14 as stated: in tier (b) a candidate qualifies when its config path is
\* the path of any other provider of the winning folder that has a config
\* URI for the resource.
C14_Original ==
    CallStarted =>
        \A j \in 1..Len(call.log) :
            call.log[j].tier = "b" =>
                (call.log[j].yielded <=> SiblingHasConfigUri(call.log[j].provider))

\* C14 as amended: in tier (b) a candidate qualifies exactly when its config
\* path is the path of the first provider, in folder-selector order, of the
\* winning folder that had a config URI for the resource when the call
\* started; the paths of later providers with a config URI are not compared.
C14_TierBComparesFirstConfigPath ==
    CallStarted =>
        \A j \in 1..Len(call.log) :
            call.log[j].tier = "b" =>
                (call.log[j].yielded <=>
                    /\ WithConfigUri # {}
                    /\ getPath(call.log[j].provider.key)
                          = getPath(call.scope[Min(WithConfigUri)].key))

C14_Witness ==
    /\ CallStarted
    /\ \E i, j \in 1..Len(call.log) :
          /\ call.log[i].tier = "b" /\ call.log[i].yielded
          /\ call.log[j].tier = "b" /\ ~call.log[j].yielded
          /\ SiblingHasConfigUri(call.log[j].provider)

DefaultCandidates == SelectSeq(call.scope, LAMBDA e : getName(e.key) = ConfigName)

WriteWithNoConfigFile ==
    /\ CallStarted
    /\ call.preferenceName = "foo.bar"
    /\ call.before = <<>>
    /\ call.scope # <<>>

ResolvedAfterWrite ==
    /\ ret.op = "resolve"
    /\ ret.preferenceName = call.preferenceName
    /\ ret.resourceUri = call.resourceUri

\* C15: with no config file in the winning folder, setPreference("foo.bar",
\* v, uri) finds no candidate in tiers (a) and (b), makes its first write
\* attempt in tier (c) on the first default-config candidate and, that
\* provider accepting the write, returns true after this single attempt; a
\* resolve("foo.bar", uri) after the return gives the written value, with
\* the config URI of the provider written through.  (A provider that
\* refuses hands the write to the next default-config candidate, still in
\* tier (c).)
C15_WriteFallbackThenResolve ==
    WriteWithNoConfigFile =>
        /\ \A j \in 1..Len(call.log) : call.log[j].tier # "c" => ~call.log[j].yielded
        /\ Attempts # <<>>
        /\ Attempts[1].tier = "c"
        /\ Attempts[1].provider = DefaultCandidates[1]
        /\ \A i \in 1..Len(Attempts) :
              Attempts[i].tier = "c" /\ Attempts[i].provider = DefaultCandidates[i]
        /\ Attempts[1].answer = "true" =>
              /\ call.status = "returned"
              /\ call.result
              /\ Len(Attempts) = 1
        /\ (call.status = "returned" /\ call.result /\ ResolvedAfterWrite) =>
              /\ ret.value = call.value
              /\ ret.configUri = Attempts[Len(Attempts)].provider.key

C15_Witness ==
    /\ WriteWithNoConfigFile
    /\ Len(DefaultCandidates) = 2
    /\ Len(call.log) = 5
    /\ Len(Attempts) = 1
    /\ call.result
    /\ ResolvedAfterWrite
    /\ ret.value = WrittenValue
    /\ ret.configUri = DefaultCandidates[1].key

NoFolderProviders(resourceUri) ==
    resourceUri = NoResource \/ Qualifying(resourceUri) = {}

\* C18: when no folder provider exists for the resource (no resource URI, no
\* registered folder that is an ancestor of the resource, or an empty
\* registry) setPreference returns false at once: it completes, it makes no
\* write attempt on any provider and it changes no config file.
C18_NoFolderProvidersReturnsFalse ==
    (CallStarted /\ NoFolderProviders(call.resourceUri)) =>
        /\ call.status = "returned"
        /\ ~call.result
        /\ call.log = <<>>
        /\ files = call.before

C18_Witness ==
    /\ call.status = "returned"
    /\ ~call.result
    /\ call.resourceUri = ResourceAX
    /\ providers # <<>>
    /\ files # <<>>
    /\ Qualifying(call.resourceUri) = {}

----------------------------------------------------------------------------
(* Root removal: properties *)

JustRemoved == ToSet(lastPass.rootsBefore) \ ToSet(roots)

Under(f) == {r \in Resources \ {NoResource} : relativity(f.path, r.path) >= 0}

\* The config-file environments a resolve after the change may meet: none, or
\* one config file.
OneFileEnvironments ==
    {<<>>} \cup UNION {{(slot :> content) : content \in {c \in FileContents(slot) : c.cfg}} :
                          slot \in Slots}

ProvidersGone(f) ==
    /\ \A j \in 1..Len(providers) : folderUri(providers[j]) # f
    /\ \A j \in 1..Len(lastPass.before) :
          folderUri(lastPass.before[j]) = f =>
             /\ lastPass.before[j].id \in lastPass.disposed
             /\ disposeCount[lastPass.before[j].id] >= 1

\* C16 as stated: once the change event that removes a folder is processed,
\* the folder's providers are disposed and out of the registry, and resolve
\* returns an undefined value and config URI for every resource under it.
C16_Original ==
    lastPass.kind = "change" =>
        \A f \in JustRemoved :
            /\ ProvidersGone(f)
            /\ \A r \in Under(f), fls \in OneFileEnvironments, n \in PrefNames :
                  /\ resolve(providers, fls, n, r).value = Undefined
                  /\ resolve(providers, fls, n, r).configUri = NoUri

\* C16 as amended: once the change event that removes a folder is processed,
\* the folder's providers are disposed and out of the registry, and resolve
\* for a resource under it never consults them; it returns an undefined
\* value and config URI when no folder still registered is an ancestor of
\* the resource, and otherwise answers from the providers of the closest
\* such folder.
C16_RemovedFolderNoLongerAnswers ==
    lastPass.kind = "change" =>
        \A f \in JustRemoved :
            /\ ProvidersGone(f)
            /\ \A r \in Under(f), fls \in OneFileEnvironments, n \in PrefNames :
                  \E res \in {resolve(providers, fls, n, r)} :
                     /\ \A i \in 1..Len(res.consulted) :
                           /\ folderUri(res.consulted[i]) # f
                           /\ folderUri(res.consulted[i]) \in ToSet(roots)
                           /\ IsWinner(folderUri(res.consulted[i]), r)
                     /\ Qualifying(r) = {} =>
                           res.value = Undefined /\ res.configUri = NoUri
                     /\ res.configUri # NoUri => res.configUri.folder \in Qualifying(r)

C16_Witness ==
    /\ lastPass.kind = "change"
    /\ lastPass.rootsBefore = <<FolderA, FolderAB>>
    /\ roots = <<FolderA>>
    /\ ProvidersGone(FolderAB)
    /\ resolve(lastPass.before, (<<Paths[1], ConfigName>> :>
                                   [cfg |-> TRUE, prefs |-> FilePrefs(<<Paths[1], ConfigName>>)]),
               "x", ResourceABC).configUri.folder = FolderAB
    /\ resolve(providers, (<<Paths[1], ConfigName>> :>
                             [cfg |-> TRUE, prefs |-> FilePrefs(<<Paths[1], ConfigName>>)]),
               "x", ResourceABC).configUri.folder = FolderA

----------------------------------------------------------------------------
(* Aggregate readiness: properties *)

AllSettled ==
    /\ pc = "listening"
    /\ \A id \in DOMAIN readyPromises : readyPromises[id] # "pending"

Rejected == {id \in DOMAIN readyPromises : readyPromises[id] = "rejected"}

\* C17: the aggregate readiness resolves only after every provider of the
\* first pass has settled its ready future and, once they all have settled
\* (resolved or rejected), it eventually resolves; a rejection leaves the
\* aggregate readiness and the registry as they were, and the rejecting
\* provider stays registered.
C17_ReadyOnceAllSettled ==
    /\ [](ready = "resolved" => AllSettled)
    /\ (AllSettled ~> (ready = "resolved"))
    /\ [](Rejected \subseteq IdsOf(providers))
    /\ [][(readyPromises' # readyPromises /\ pc = "listening") =>
             (providers' = providers /\ ready' = ready)]_vars

C17_Witness ==
    /\ ready = "resolved"
    /\ Rejected # {}
    /\ Rejected # DOMAIN readyPromises
    /\ Rejected \subseteq IdsOf(providers)

----------------------------------------------------------------------------
(* Frame of the provider entry map *)

\* C19: the provider entry map changes only in a step that runs
\* updateProviders (init's first pass or a workspace-root change event);
\* resolve, getPreferences, setPreference (its start and each provider
\* answer), getConfigUri, getContainingConfigUri and getFolderProviders leave
\* the registered keys and their providers as they were.
C19_OnlyUpdateProvidersChangesRegistry ==
    [][/\ providers' # providers =>
             /\ lastPass'.n = lastPass.n + 1
             /\ lastPass'.kind \in {"init", "change"}
             /\ ret' = ret
             /\ call' = call
       /\ (ret' # ret \/ call' # call) => providers' = providers]_vars

C19_Witness ==
    /\ ret.op = "getContainingConfigUri"
    /\ ret.configUri # NoUri
    /\ call.status = "returned"
    /\ call.result
    /\ Len(providers) = 2 * Len(Paths) * Len(ConfigNames)

----------------------------------------------------------------------------
(* TabbarService: properties *)

\* the containers of containersMap
Registered(map) == {map[i].containerId : i \in DOMAIN map}

\* this step is registerContainer(containerId, ...) run after the
\* RenderedEvent for a container with no stored state
RegistersUnstoredAfterRender(containerId) ==
    /\ rendered
    /\ containerId \notin DOMAIN storedState
    /\ ~has(containersMap, containerId)
    /\ has(containersMap', containerId)

\* C20: a container registered after the RenderedEvent that has no stored
\* state is placed last in the tab order: after registerContainer its
\* priority in state is greater than the priority of every other registered
\* container.
C20_UnstoredAfterRenderPlacedLast ==
    [][\A containerId \in ContainerIds :
          RegistersUnstoredAfterRender(containerId) =>
              \A other \in Registered(containersMap') \ {containerId} :
                  state'[containerId].priority > state'[other].priority]_vars

----------------------------------------------------------------------------
(* Resolution Engine: termination of setPreference *)

EvaluationsOf(q) == {i \in 1..Len(call.log) : call.log[i].provider = q}

AttemptsOn(q) == {i \in EvaluationsOf(q) : call.log[i].yielded}

QueuedFor(q) == {i \in 1..Len(call.iterator) : call.iterator[i].provider = q}

\* closures a queued closure can still stand for: itself and its later tiers
TiersLeft(closure) == 4 - TierRank(closure.tier)

RECURSIVE EvaluationsLeft(_, _)
EvaluationsLeft(queue, i) ==
    IF i > Len(queue) THEN 0
    ELSE TiersLeft(queue[i]) + EvaluationsLeft(queue, i + 1)

\* C21: within one setPreference call each candidate provider receives at
\* most one write attempt (a provider that refused is never queued again), at
\* most three of its closures are evaluated, one per tier, and the loop ends:
\* the closures evaluated plus those the queue can still produce never exceed
\* three per candidate, a call that returns false has emptied its queue, and
\* a call whose awaited writes all settle returns.
C21_OneAttemptPerCandidateAndTerminates ==
    /\ [](CallStarted =>
            /\ \A i \in 1..Len(call.log) : call.log[i].provider \in CallCandidates
            /\ \A q \in CallCandidates :
                  /\ Cardinality(AttemptsOn(q)) <= 1
                  /\ Cardinality(EvaluationsOf(q)) <= 3
                  /\ \A i, j \in EvaluationsOf(q) :
                        i # j => call.log[i].tier # call.log[j].tier
                  /\ Cardinality(QueuedFor(q)) <= 1
                  /\ AttemptsOn(q) # {} => QueuedFor(q) = {}
            /\ Len(call.log) + EvaluationsLeft(call.iterator, 1)
                  <= 3 * Cardinality(CallCandidates)
            /\ Len(Attempts) <= Cardinality(CallCandidates)
            /\ (call.status = "returned" /\ ~call.result) => call.iterator = <<>>)
    /\ (call.status = "awaiting") ~> (call.status = "returned")

C21_Witness ==
    /\ call.status = "returned"
    /\ ~call.result
    /\ Cardinality(CallCandidates) = 2
    /\ Len(call.log) = 3 * Cardinality(CallCandidates)
    /\ Len(Attempts) = 2
    /\ Attempts[1].tier = "c"

----------------------------------------------------------------------------
(* Resolution Engine: setPreference across a workspace-root change *)

AttemptedIds == {Attempts[i].provider.id : i \in 1..Len(Attempts)}

\* C22 as stated: a setPreference call suspended at a provider's write never
\* afterwards invokes setPreference on a provider that an interleaved
\* updateProviders pass has disposed and removed from the registry.
C22_Original ==
    CallStarted => call.invokedDisposed = {}

\* C22: a setPreference call suspended at a provider's write is not cancelled
\* by an interleaved updateProviders pass. It goes on over the candidates it
\* captured when it started, so it may afterwards invoke setPreference on a
\* provider the pass has disposed and removed; it returns false only after
\* every captured candidate, the disposed ones included, has refused; and it
\* never invokes a provider that was not captured at its start.
C22_SuspendedCallKeepsCapturedCandidates ==
    CallStarted =>
        /\ \A i \in 1..Len(call.log) : call.log[i].provider \in ToSet(call.scope)
        /\ call.invokedDisposed \subseteq (removed \cap AttemptedIds)
        /\ \A id \in call.invokedDisposed : disposeCount[id] = 1
        /\ \A i \in 1..Len(Attempts) :
              Attempts[i].provider \in ToSet(providers) \/ Attempts[i].provider.id \in removed
        /\ (call.status = "returned" /\ ~call.result) =>
              \A q \in CallCandidates :
                  \E i \in 1..Len(Attempts) :
                      Attempts[i].provider = q /\ Attempts[i].answer = "false"

C22_Witness ==
    /\ call.status = "returned"
    /\ ~call.result
    /\ Len(Attempts) = 2
    /\ call.invokedDisposed = {Attempts[2].provider.id}
    /\ Attempts[1].provider.id \in removed
    /\ lastPass.kind = "change"
    /\ providers # <<>>

----------------------------------------------------------------------------
(* Provider Registry: after dispose() *)

\* C23: once the FoldersPreferencesProvider has been disposed no new provider
\* is created (neither by a workspace-root change event arriving afterwards
\* nor by an init that was still awaiting the roots), and the registry holds
\* no undisposed provider.
C23_NoProviderAfterDispose ==
    /\ [](life # "alive" => \A id \in IdsOf(providers) : disposeCount[id] >= 1)
    /\ [][life # "alive" => nextId' = nextId]_vars

----------------------------------------------------------------------------
(* TabbarService: state and containersMap *)

\* C24: after any sequence of registerContainer and disposeContainer calls
\* state and containersMap have the same key set; a disposed container has no
\* entry in state, also after later registrations of other containers have
\* re-indexed the priorities.
C24_StateKeysAreRegistered ==
    DOMAIN state = Registered(containersMap)

----------------------------------------------------------------------------
(* TabbarService: priorities *)

\* no container has been disposed: sortedContainers lists registered
\* containers, each once
NothingDisposed ==
    /\ \A i \in DOMAIN sortedContainers :
          has(containersMap, sortedContainers[i].containerId)
    /\ \A i, j \in DOMAIN sortedContainers :
          sortedContainers[i].containerId = sortedContainers[j].containerId => i = j

\* C25: after any sequence of registerContainer (before and after render),
\* restoreState and handleDrop, no two registered containers have the same
\* priority in state.
C25_DistinctPriorities ==
    NothingDisposed =>
        \A a, b \in Registered(containersMap) :
            a # b => state[a].priority # state[b].priority

----------------------------------------------------------------------------
(* TabbarService: hiding the active tab *)

\* the calls of doToggleTab the two toggle commands can make in this state
ToggleCalls ==
    {<<containerId, "undefined">> :
         containerId \in {c \in Registered(containersMap) :
                             globalToggleEnabled(containersMap, state)}}
    \cup
    {<<containerId, forceShow>> :
         containerId \in {c \in Registered(containersMap) :
                             visibleToggleEnabled(containersMap, state, c)},
         forceShow \in ForceShow}

Toggled(toggle) ==
    doToggleTab(containersMap, state, currentContainerId, toggle[1], toggle[2])

\* C26: whenever doToggleTab hides the container that is currently active it
\* completes without failure and currentContainerId afterwards names a
\* registered container that is not hidden; and currentContainerId never
\* names a hidden container after doToggleTab returns.
C26_ActiveTabNeverHidden ==
    \A toggle \in ToggleCalls :
        /\ (toggle[1] = currentContainerId /\ Toggled(toggle).state[toggle[1]].hidden) =>
              /\ ~Toggled(toggle).failed
              /\ Toggled(toggle).currentContainerId \in Registered(containersMap)
              /\ ~Toggled(toggle).state[Toggled(toggle).currentContainerId].hidden
        /\ ~Toggled(toggle).failed =>
              \/ Toggled(toggle).currentContainerId \notin DOMAIN Toggled(toggle).state
              \/ ~Toggled(toggle).state[Toggled(toggle).currentContainerId].hidden

====
